---- MODULE Spec2Model ----
(***************************************************************************)
(* Streaming-event normalizers of the frontend: the Strands (Converse      *)
(* style) parser and the LangGraph parser.  Each takes one SSE line, the   *)
(* caller's accumulated completion and an update callback, and returns the *)
(* new accumulated completion.                                             *)
(*                                                                         *)
(* A JavaScript string is a TLA+ string; the character at position i of s  *)
(* is SubSeq(s, i, i).                                                     *)
(***************************************************************************)
EXTENDS Integers, Sequences, FiniteSets

(***************************************************************************)
(* Bounds of the model.                                                    *)
(***************************************************************************)
\* Lines the read loop hands to the parsers in one run, all sessions together.
MaxLines == 2

(***************************************************************************)
(* String primitives used by both parsers.                                 *)
(***************************************************************************)
At(s, i) == SubSeq(s, i, i)

\* White space removed by String.prototype.trim (the part inside the alphabet).
WhiteSpace == {" ", "\t", "\n", "\r"}

RECURSIVE TrimStart(_)
TrimStart(s) ==
  IF Len(s) > 0 /\ At(s, 1) \in WhiteSpace
    THEN TrimStart(SubSeq(s, 2, Len(s)))
    ELSE s

RECURSIVE TrimEnd(_)
TrimEnd(s) ==
  IF Len(s) > 0 /\ At(s, Len(s)) \in WhiteSpace
    THEN TrimEnd(SubSeq(s, 1, Len(s) - 1))
    ELSE s

\* line.trim()
trim(s) == TrimEnd(TrimStart(s))

\* line.startsWith(p)
startsWith(s, p) == Len(s) >= Len(p) /\ SubSeq(s, 1, Len(p)) = p

\* line.substring(n)
substring(s, n) == SubSeq(s, n + 1, Len(s))

(***************************************************************************)
(* JavaScript values as JSON.parse produces them, tagged by type, and      *)
(* undefined (the result of reading an absent property).                   *)
(***************************************************************************)
Undefined == [t |-> "undefined"]
JNull == [t |-> "null"]
JBool(b) == [t |-> "bool", b |-> b]
JNum(n) == [t |-> "num", n |-> n]
JStr(s) == [t |-> "str", s |-> s]
JArr(a) == [t |-> "arr", a |-> a]
\* An object is the sequence of its <<key, value>> members in text order.
JObj(o) == [t |-> "obj", o |-> o]

(***************************************************************************)
(* JSON.parse: a recursive-descent parser of JSON text.  Numbers are       *)
(* integers (fractions and exponents are outside the alphabet), string     *)
(* escapes are \" \\ \/ \n \t \r.                                          *)
(***************************************************************************)
JsonWs == {" ", "\t", "\n", "\r"}
Digits == {"0", "1", "2", "3", "4", "5", "6", "7", "8", "9"}
DigitValue(c) ==
  CASE c = "0" -> 0 [] c = "1" -> 1 [] c = "2" -> 2 [] c = "3" -> 3
    [] c = "4" -> 4 [] c = "5" -> 5 [] c = "6" -> 6 [] c = "7" -> 7
    [] c = "8" -> 8 [] c = "9" -> 9

Fail == [ok |-> FALSE, v |-> Undefined, i |-> 0]
Ok(v, i) == [ok |-> TRUE, v |-> v, i |-> i]

RECURSIVE SkipWs(_, _)
SkipWs(s, i) ==
  IF i <= Len(s) /\ At(s, i) \in JsonWs THEN SkipWs(s, i + 1) ELSE i

Unescape(c) ==
  CASE c = "n" -> "\n" [] c = "t" -> "\t" [] c = "r" -> "\r" [] OTHER -> c

\* The characters of a string literal from position i (after the opening quote).
RECURSIVE ScanString(_, _, _)
ScanString(s, i, acc) ==
  IF i > Len(s) THEN Fail
  ELSE IF At(s, i) = "\"" THEN Ok(JStr(acc), i + 1)
  ELSE IF At(s, i) = "\\" THEN
    IF i + 1 <= Len(s) /\ At(s, i + 1) \in {"\"", "\\", "/", "n", "t", "r"}
      THEN ScanString(s, i + 2, acc \o Unescape(At(s, i + 1)))
      ELSE Fail
  ELSE IF At(s, i) \in {"\n", "\t", "\r"} THEN Fail
  ELSE ScanString(s, i + 1, acc \o At(s, i))

RECURSIVE ScanDigits(_, _, _)
ScanDigits(s, i, n) ==
  IF i <= Len(s) /\ At(s, i) \in Digits
    THEN ScanDigits(s, i + 1, 10 * n + DigitValue(At(s, i)))
    ELSE Ok(JNum(n), i)

\* -? ( 0 | [1-9][0-9]* )
ScanNumber(s, i) ==
  LET neg == At(s, i) = "-"
      j == IF neg THEN i + 1 ELSE i
  IN IF j > Len(s) \/ At(s, j) \notin Digits THEN Fail
     ELSE IF At(s, j) = "0" THEN Ok(JNum(0), j + 1)
     ELSE LET r == ScanDigits(s, j, 0)
          IN Ok(JNum(IF neg THEN 0 - r.v.n ELSE r.v.n), r.i)

\* The next n characters of s from position i (fewer at the end of s).
Slice(s, i, n) ==
  SubSeq(s, i, IF i + n - 1 <= Len(s) THEN i + n - 1 ELSE Len(s))

ScanLiteral(s, i) ==
  IF Slice(s, i, 4) = "true" THEN Ok(JBool(TRUE), i + 4)
  ELSE IF Slice(s, i, 5) = "false" THEN Ok(JBool(FALSE), i + 5)
  ELSE IF Slice(s, i, 4) = "null" THEN Ok(JNull, i + 4)
  ELSE Fail

RECURSIVE ParseValue(_, _)
RECURSIVE ParseElements(_, _, _)
RECURSIVE ParseMembers(_, _, _)

ParseValue(s, i0) ==
  LET i == SkipWs(s, i0) IN
  IF i > Len(s) THEN Fail
  ELSE IF At(s, i) = "{" THEN
    LET j == SkipWs(s, i + 1) IN
    IF j <= Len(s) /\ At(s, j) = "}" THEN Ok(JObj(<<>>), j + 1)
    ELSE ParseMembers(s, j, <<>>)
  ELSE IF At(s, i) = "[" THEN
    LET j == SkipWs(s, i + 1) IN
    IF j <= Len(s) /\ At(s, j) = "]" THEN Ok(JArr(<<>>), j + 1)
    ELSE ParseElements(s, j, <<>>)
  ELSE IF At(s, i) = "\"" THEN ScanString(s, i + 1, "")
  ELSE IF At(s, i) \in Digits \cup {"-"} THEN ScanNumber(s, i)
  ELSE ScanLiteral(s, i)

ParseElements(s, i, acc) ==
  LET r == ParseValue(s, i) IN
  IF ~r.ok THEN Fail
  ELSE LET j == SkipWs(s, r.i) IN
    IF j > Len(s) THEN Fail
    ELSE IF At(s, j) = "," THEN ParseElements(s, j + 1, Append(acc, r.v))
    ELSE IF At(s, j) = "]" THEN Ok(JArr(Append(acc, r.v)), j + 1)
    ELSE Fail

ParseMembers(s, i, acc) ==
  LET k == SkipWs(s, i) IN
  IF k > Len(s) \/ At(s, k) # "\"" THEN Fail
  ELSE LET key == ScanString(s, k + 1, "") IN
    IF ~key.ok THEN Fail
    ELSE LET c == SkipWs(s, key.i) IN
      IF c > Len(s) \/ At(s, c) # ":" THEN Fail
      ELSE LET r == ParseValue(s, c + 1) IN
        IF ~r.ok THEN Fail
        ELSE LET j == SkipWs(s, r.i)
                 member == <<key.v.s, r.v>>
             IN IF j > Len(s) THEN Fail
                ELSE IF At(s, j) = "," THEN ParseMembers(s, j + 1, Append(acc, member))
                ELSE IF At(s, j) = "}" THEN Ok(JObj(Append(acc, member)), j + 1)
                ELSE Fail

\* JSON.parse(data): ok is FALSE where JSON.parse throws a SyntaxError.
JSONparse(data) ==
  LET r == ParseValue(data, 1) IN
  IF r.ok /\ SkipWs(data, r.i) > Len(data)
    THEN [ok |-> TRUE, v |-> r.v]
    ELSE [ok |-> FALSE, v |-> Undefined]

(***************************************************************************)
(* JavaScript semantics the parsers rely on.                               *)
(***************************************************************************)
\* Reading a property of null or undefined throws a TypeError.
Nullish(v) == v.t \in {"null", "undefined"}

\* The value of the last member of o named k (JSON.parse keeps the last of
\* duplicate keys), undefined when there is none.
RECURSIVE Lookup(_, _)
Lookup(o, k) ==
  IF Len(o) = 0 THEN Undefined
  ELSE IF o[Len(o)][1] = k THEN o[Len(o)][2]
  ELSE Lookup(SubSeq(o, 1, Len(o) - 1), k)

\* v.k for a v that is neither null nor undefined.  Strings, numbers,
\* booleans and arrays have none of the properties the parsers read.
Get(v, k) == IF v.t = "obj" THEN Lookup(v.o, k) ELSE Undefined

\* v?.k
OptGet(v, k) == IF Nullish(v) THEN Undefined ELSE Get(v, k)

\* Variant: a test for a value that is present, true of "" and 0.
TruthyDefined(v) == v.t \notin {"undefined", "null"}

\* ToBoolean(v), as in if (v) and a && b.
Truthy(v) ==
  CASE v.t = "undefined" -> FALSE
    [] v.t = "null" -> FALSE
    [] v.t = "bool" -> v.b
    [] v.t = "num" -> v.n # 0
    [] v.t = "str" -> v.s # ""
    [] OTHER -> TRUE

DigitChar(d) == SubSeq("0123456789", d + 1, d + 1)

RECURSIVE NatToString(_)
NatToString(n) ==
  IF n < 10 THEN DigitChar(n) ELSE NatToString(n \div 10) \o DigitChar(n % 10)

\* ToString(v) of JavaScript, as applied by string + v and by Array.prototype.join.
RECURSIVE JsToString(_)
RECURSIVE JoinWith(_, _)
JsToString(v) ==
  CASE v.t = "str" -> v.s
    [] v.t = "num" -> IF v.n < 0 THEN "-" \o NatToString(0 - v.n) ELSE NatToString(v.n)
    [] v.t = "bool" -> IF v.b THEN "true" ELSE "false"
    [] v.t = "null" -> "null"
    [] v.t = "undefined" -> "undefined"
    [] v.t = "arr" -> JoinWith(v.a, ",")
    [] v.t = "obj" -> "[object Object]"

\* a.join(sep): null and undefined elements become the empty string.
JoinWith(a, sep) ==
  IF Len(a) = 0 THEN ""
  ELSE LET piece == IF Nullish(a[1]) THEN "" ELSE JsToString(a[1])
       IN IF Len(a) = 1 THEN piece
          ELSE piece \o sep \o JoinWith(Tail(a), sep)

(***************************************************************************)
(* Outcome of a piece of parser code: it returns a completion or throws,   *)
(* having invoked the update callback with the arguments in calls.         *)
(***************************************************************************)
Return(value, calls) == [kind |-> "return", value |-> value, calls |-> calls]
Throw(calls) == [kind |-> "throw", value |-> "", calls |-> calls]

\* What the caller's update callback does when invoked.
CallbackBehaviour == {"returns", "throws"}

\* updateCallback(newCompletion); return newCompletion;
UpdateAndReturn(newCompletion, cb) ==
  IF cb = "throws"
    THEN Throw(<<newCompletion>>)
    ELSE Return(newCompletion, <<newCompletion>>)

\* The separator a message start adds between assistant messages.
MessageSeparator == "\n\n"

\* The SSE prefix of a line that carries a payload.
DataPrefix == "data: "

(***************************************************************************)
(* strandsParser.js                                                        *)
(***************************************************************************)
\* Variant: a message start appends the separator to an empty completion too.
StrandsMessageStartAlways(currentCompletion, cb) ==
  UpdateAndReturn(currentCompletion \o MessageSeparator, cb)

\* Variant: a message start begins the completion anew with the separator.
StrandsMessageStartResets(currentCompletion, cb) ==
  IF currentCompletion # ""
    THEN UpdateAndReturn(MessageSeparator, cb)
    ELSE Return(currentCompletion, <<>>)

\* if (currentCompletion) { newCompletion = currentCompletion + '\n\n'; ... }
StrandsMessageStart(currentCompletion, cb) ==
  IF currentCompletion # ""
    THEN UpdateAndReturn(currentCompletion \o MessageSeparator, cb)
    ELSE Return(currentCompletion, <<>>)

\* Variant: no catch block, a fault of the try block reaches the caller.
StrandsCatchNothing(outcome, currentCompletion) == outcome

\* catch { console.debug(...); return currentCompletion; }
StrandsCatch(outcome, currentCompletion) ==
  IF outcome.kind = "throw"
    THEN Return(currentCompletion, outcome.calls)
    ELSE outcome

\* Variant: a message start of any role is a boundary.
StrandsIsMessageStartAnyRole(json) ==
  Truthy(OptGet(OptGet(Get(json, "event"), "messageStart"), "role"))

\* json.event?.messageStart?.role === 'assistant'
StrandsIsMessageStart(json) ==
  OptGet(OptGet(Get(json, "event"), "messageStart"), "role") = JStr("assistant")

\* json.event?.contentBlockDelta?.delta?.text
StrandsDeltaText(json) ==
  OptGet(OptGet(OptGet(Get(json, "event"), "contentBlockDelta"), "delta"), "text")

\* Variant: the text delta is looked for before the message start.
StrandsTryDeltaFirst(data, currentCompletion, cb) ==
  LET parsed == JSONparse(data) IN
  IF ~parsed.ok THEN Throw(<<>>)
  ELSE IF Nullish(parsed.v) THEN Throw(<<>>)
  ELSE IF Truthy(StrandsDeltaText(parsed.v))
    THEN UpdateAndReturn(currentCompletion \o JsToString(StrandsDeltaText(parsed.v)), cb)
  ELSE IF StrandsIsMessageStart(parsed.v) THEN StrandsMessageStart(currentCompletion, cb)
  ELSE Return(currentCompletion, <<>>)

\* The try block of the Strands parser.
StrandsTry(data, currentCompletion, cb) ==
  LET parsed == JSONparse(data) IN
  IF ~parsed.ok THEN Throw(<<>>)
  ELSE IF Nullish(parsed.v) THEN Throw(<<>>)
  ELSE IF StrandsIsMessageStart(parsed.v) THEN StrandsMessageStart(currentCompletion, cb)
  ELSE IF Truthy(StrandsDeltaText(parsed.v))
    THEN UpdateAndReturn(currentCompletion \o JsToString(StrandsDeltaText(parsed.v)), cb)
  ELSE Return(currentCompletion, <<>>)

\* Variant: the prefix is looked for in the trimmed line.
parseStreamingChunk_strands_trimmed(line, currentCompletion, cb) ==
  IF line = "" \/ trim(line) = "" THEN Return(currentCompletion, <<>>)
  ELSE IF ~startsWith(trim(line), "data:") THEN Return(currentCompletion, <<>>)
  ELSE LET data == trim(substring(trim(line), 5)) IN
    IF data = "" THEN Return(currentCompletion, <<>>)
    ELSE StrandsCatch(StrandsTry(data, currentCompletion, cb), currentCompletion)

parseStreamingChunk_strands(line, currentCompletion, cb) ==
  IF line = "" \/ trim(line) = "" THEN Return(currentCompletion, <<>>)
  ELSE IF ~startsWith(line, DataPrefix) THEN Return(currentCompletion, <<>>)
  ELSE LET data == trim(substring(line, 6)) IN
    IF data = "" THEN Return(currentCompletion, <<>>)
    ELSE StrandsCatch(StrandsTry(data, currentCompletion, cb), currentCompletion)

(***************************************************************************)
(* The LangGraph parser.                                                   *)
(***************************************************************************)
\* Variant: the separator is added to an empty completion too.
LangGraphMessageStartAlways(currentCompletion, cb) ==
  UpdateAndReturn(currentCompletion \o MessageSeparator, cb)

\* if (currentCompletion) { newCompletion = currentCompletion + '\n\n'; ... }
LangGraphMessageStart(currentCompletion, cb) ==
  IF currentCompletion # ""
    THEN UpdateAndReturn(currentCompletion \o MessageSeparator, cb)
    ELSE Return(currentCompletion, <<>>)

\* Variant: the catch block returns what the callback was given.
LangGraphCatchCommits(outcome, currentCompletion) ==
  IF outcome.kind = "throw"
    THEN Return(IF outcome.calls # <<>> THEN outcome.calls[1] ELSE currentCompletion,
                outcome.calls)
    ELSE outcome

\* Variant: no catch block, a fault of the try block reaches the caller.
LangGraphCatchNothing(outcome, currentCompletion) == outcome

\* catch { console.debug(...); return currentCompletion; }
LangGraphCatch(outcome, currentCompletion) ==
  IF outcome.kind = "throw"
    THEN Return(currentCompletion, outcome.calls)
    ELSE outcome

\* Variant: every message with an array content is read, whatever its type.
LangGraphIsChunkAnyType(json) == Get(json, "content").t = "arr"

\* json.type === 'AIMessageChunk' && Array.isArray(json.content)
LangGraphIsChunk(json) ==
  /\ Get(json, "type") = JStr("AIMessageChunk")
  /\ Get(json, "content").t = "arr"

\* Variant: every block with a text is kept, whatever its type.
LangGraphKeepsAnyText(block) == Truthy(Get(block, "text"))

\* block => block.type === 'text' && block.text
LangGraphKeeps(block) ==
  Get(block, "type") = JStr("text") /\ Truthy(Get(block, "text"))

\* content.filter(block => ...): the blocks kept, in order.
RECURSIVE LangGraphFilter(_)
LangGraphFilter(content) ==
  IF Len(content) = 0 THEN <<>>
  ELSE IF LangGraphKeeps(content[1])
    THEN <<content[1]>> \o LangGraphFilter(Tail(content))
    ELSE LangGraphFilter(Tail(content))

\* The text property of each block, in order: .map(block => block.text)
LangGraphTexts(blocks) == [i \in 1..Len(blocks) |-> Get(blocks[i], "text")]

\* content.filter(...).map(...).join('')
LangGraphTextContent(content) ==
  JoinWith(LangGraphTexts(LangGraphFilter(content)), "")

\* Variant: the filter passes over elements that are null (block?.type).
LangGraphTrySkipsNull(data, currentCompletion, cb) ==
  LET parsed == JSONparse(data) IN
  IF ~parsed.ok THEN Throw(<<>>)
  ELSE IF Nullish(parsed.v) THEN Throw(<<>>)
  ELSE IF LangGraphIsChunk(parsed.v) THEN
    LET content == Get(parsed.v, "content").a IN
    IF Len(content) = 0 THEN LangGraphMessageStart(currentCompletion, cb)
    ELSE IF LangGraphTextContent(content) # ""
      THEN UpdateAndReturn(currentCompletion \o LangGraphTextContent(content), cb)
    ELSE Return(currentCompletion, <<>>)
  ELSE Return(currentCompletion, <<>>)

\* The try block of the LangGraph parser.  The filter reads block.type of
\* every element: a null element throws a TypeError before any callback.
LangGraphTry(data, currentCompletion, cb) ==
  LET parsed == JSONparse(data) IN
  IF ~parsed.ok THEN Throw(<<>>)
  ELSE IF Nullish(parsed.v) THEN Throw(<<>>)
  ELSE IF LangGraphIsChunk(parsed.v) THEN
    LET content == Get(parsed.v, "content").a IN
    IF Len(content) = 0 THEN LangGraphMessageStart(currentCompletion, cb)
    ELSE IF \E i \in 1..Len(content) : Nullish(content[i]) THEN Throw(<<>>)
    ELSE IF LangGraphTextContent(content) # ""
      THEN UpdateAndReturn(currentCompletion \o LangGraphTextContent(content), cb)
    ELSE Return(currentCompletion, <<>>)
  ELSE Return(currentCompletion, <<>>)

parseStreamingChunk_langgraph(line, currentCompletion, cb) ==
  IF line = "" \/ trim(line) = "" THEN Return(currentCompletion, <<>>)
  ELSE IF ~startsWith(line, DataPrefix) THEN Return(currentCompletion, <<>>)
  ELSE LET data == trim(substring(line, 6)) IN
    IF data = "" THEN Return(currentCompletion, <<>>)
    ELSE LangGraphCatch(LangGraphTry(data, currentCompletion, cb), currentCompletion)

(***************************************************************************)
(* Lines of the response stream.  The payloads follow the formats named in *)
(* the parsers' header comments.                                           *)
(***************************************************************************)
DataLine(payload) == "data: " \o payload

\* {"event": {"messageStart": {"role": <role>}}}
StrandsMessageStartEvent(role) ==
  "{\"event\": {\"messageStart\": {\"role\": " \o role \o "}}}"

\* {"event": {"contentBlockDelta": {"delta": {"text": <text>}}}}
StrandsDeltaEvent(text) ==
  "{\"event\": {\"contentBlockDelta\": {\"delta\": {\"text\": " \o text \o "}}}}"

\* {"content": <content>, "type": <type>}
LangGraphMessage(content, type) ==
  "{\"content\": " \o content \o ", \"type\": " \o type \o "}"

\* {"type": "text", "text": <text>, "index": 0}
TextBlock(text) == "{\"type\": \"text\", \"text\": " \o text \o ", \"index\": 0}"

ToolUseBlock == "{\"type\": \"tool_use\", \"name\": \"search\", \"id\": \"t1\"}"

Quoted(s) == "\"" \o s \o "\""

StrandsBoundaryLine == DataLine(StrandsMessageStartEvent(Quoted("assistant")))
\* The same event without optional white space, padded on both sides.
StrandsBoundaryPadded ==
  "data:   {\"event\":{\"messageStart\":{\"role\":\"assistant\"}}} \t"
StrandsUserStartLine == DataLine(StrandsMessageStartEvent(Quoted("user")))
StrandsDeltaLine(text) == DataLine(StrandsDeltaEvent(Quoted(text)))
\* A message start and a text delta in one event.
StrandsBothLine ==
  DataLine("{\"event\": {\"messageStart\": {\"role\": \"assistant\"}, "
           \o "\"contentBlockDelta\": {\"delta\": {\"text\": \"Hello\"}}}}")

\* The start of a tool call.
StrandsToolUseLine ==
  DataLine("{\"event\": {\"contentBlockStart\": {\"start\": "
           \o "{\"toolUse\": {\"name\": \"search\"}}}}}")

\* The texts text deltas carry.
DeltaTexts == {"Hello", " world"}

StrandsLines ==
  {StrandsBoundaryLine, StrandsBoundaryPadded, StrandsUserStartLine, StrandsBothLine}
  \cup {StrandsDeltaLine(text) : text \in DeltaTexts}
  \cup {DataLine(StrandsDeltaEvent(text)) : text \in {"\"\"", "7", "[1, 2]"}}
  \cup {DataLine("{\"event\": null}"),
        DataLine("{\"event\": {\"metadata\": {\"usage\": {\"inputTokens\": 3}}}}"),
        StrandsToolUseLine}

LangGraphChunkLine(content) ==
  DataLine(LangGraphMessage(content, Quoted("AIMessageChunk")))
LangGraphBoundaryLine == LangGraphChunkLine("[]")
LangGraphTextLine(text) == LangGraphChunkLine("[" \o TextBlock(Quoted(text)) \o "]")
LangGraphTwoBlocksLine ==
  LangGraphChunkLine("[" \o TextBlock(Quoted("Hi")) \o ", "
                         \o TextBlock(Quoted(" there")) \o "]")
\* Blocks that carry a text and no type.
LangGraphUntypedLine == LangGraphChunkLine("[{\"text\": \"Hi\"}, {\"text\": \" there\"}]")
LangGraphMixedLine ==
  LangGraphChunkLine("[" \o ToolUseBlock \o ", " \o TextBlock(Quoted("Hello")) \o "]")
LangGraphNullBlockLine ==
  LangGraphChunkLine("[" \o TextBlock(Quoted("Hello")) \o ", null]")
LangGraphToolOnlyLine == LangGraphChunkLine("[" \o ToolUseBlock \o "]")
LangGraphEmptyTextLine == LangGraphChunkLine("[" \o TextBlock(Quoted("")) \o "]")
LangGraphStringContentLine == LangGraphChunkLine(Quoted("Hello"))
LangGraphToolMessageLine ==
  DataLine(LangGraphMessage("[" \o TextBlock(Quoted("Hello")) \o "]", Quoted("ToolMessage")))
\* An AIMessageChunk without a content.
LangGraphNoContentLine == DataLine("{\"type\": \"AIMessageChunk\"}")

LangGraphLines ==
  {LangGraphBoundaryLine, LangGraphTextLine("Hello"), LangGraphTwoBlocksLine,
   LangGraphUntypedLine, LangGraphMixedLine, LangGraphNullBlockLine,
   LangGraphToolOnlyLine, LangGraphEmptyTextLine, LangGraphStringContentLine,
   LangGraphToolMessageLine, LangGraphNoContentLine}

\* Lines that carry no payload: empty, white space, no "data: " prefix, or
\* nothing but white space after it.
TransportLines ==
  {"", "  \t", ": ping",
   " " \o StrandsBoundaryLine,
   " " \o LangGraphTextLine("Hello"),
   "data:" \o StrandsDeltaEvent(Quoted("Hello")),
   "data:" \o LangGraphMessage("[]", Quoted("AIMessageChunk")),
   "data: ", "data:  \t "}

\* Payloads that are not JSON text.
MalformedLines == {DataLine("{\"event\": {\"messageStart\""), DataLine("[DONE]")}

\* Payloads that are JSON text of a value that is no object.
NonObjectLines == {DataLine("null"), DataLine("7")}

\* Lines every stream may carry, whatever its backend.
CommonLines == TransportLines \cup MalformedLines \cup NonObjectLines

\* Lines of a Strands stream: its own events and events of another format.
StrandsStream ==
  CommonLines \cup StrandsLines \cup {LangGraphBoundaryLine, LangGraphTextLine("Hello")}

\* Lines of a LangGraph stream: its own events and events of another format.
LangGraphStream ==
  CommonLines \cup LangGraphLines \cup {StrandsBoundaryLine, StrandsDeltaLine("Hello")}

Lines == StrandsStream \cup LangGraphStream

(***************************************************************************)
(* infra-cdk/lambdas/feedback/index.ts: the handler of POST /feedback.     *)
(* An event is the record of the fields the handler reads: httpMethod,     *)
(* body (a string or null) and requestContext.authorizer.                  *)
(***************************************************************************)
corsHeaders ==
  << <<"Access-Control-Allow-Origin", "*">>,
     <<"Access-Control-Allow-Headers", "Content-Type,Authorization">>,
     <<"Access-Control-Allow-Methods", "POST,OPTIONS">> >>

\* { statusCode, headers: corsHeaders, body }
Result(statusCode, body) ==
  [statusCode |-> statusCode, headers |-> corsHeaders, body |-> body]

\* JSON.stringify({ error: message })
ErrorBody(message) == "{\"error\":" \o Quoted(message) \o "}"

\* JSON.stringify({ success: true, feedbackId })
SuccessBody(feedbackId) ==
  "{\"success\":true,\"feedbackId\":" \o Quoted(feedbackId) \o "}"

\* Where the handler stands when it stops running: it has returned a
\* result, or it awaits dynamodb.send of an item.
Responds(result) == [kind |-> "respond", result |-> result]
Sends(feedbackId, item) == [kind |-> "send", feedbackId |-> feedbackId, item |-> item]

\* The promise the handler returned rejects: a fault left the handler.
Rejects == [kind |-> "reject", result |-> Result(0, "")]

\* Variant: no catch block, a fault of the try block rejects the promise.
handlerCatchNothing == Rejects

\* catch (error) { console.error(...); return { statusCode: 500, ... } }
handlerCatch == Responds(Result(500, ErrorBody("Internal server error")))

\* Variant: isThumbsUp is tested like the other two fields.
FeedbackBodyInvalidFalsy(body) ==
  \/ ~Truthy(Get(body, "sessionId"))
  \/ ~Truthy(Get(body, "message"))
  \/ ~Truthy(Get(body, "isThumbsUp"))

\* !body.sessionId || !body.message || typeof body.isThumbsUp !== 'boolean'
FeedbackBodyInvalid(body) ==
  \/ ~Truthy(Get(body, "sessionId"))
  \/ ~Truthy(Get(body, "message"))
  \/ Get(body, "isThumbsUp").t # "bool"

\* claims['cognito:username'] || claims.email || 'unknown'
username(claims) ==
  IF Truthy(Get(claims, "cognito:username")) THEN Get(claims, "cognito:username")
  ELSE IF Truthy(Get(claims, "email")) THEN Get(claims, "email")
  ELSE JStr("unknown")

\* The Item of the PutItemCommand.
FeedbackItem(body, claims, feedbackId, timestamp) ==
  [feedbackId |-> [S |-> feedbackId],
   sessionId |-> [S |-> Get(body, "sessionId").s],
   message |-> [S |-> Get(body, "message").s],
   username |-> [S |-> username(claims).s],
   isThumbsUp |-> [BOOL |-> Get(body, "isThumbsUp").b],
   timestamp |-> [N |-> NatToString(timestamp)]]

\* The try block down to the await of dynamodb.send, with the values that
\* randomUUID() and Date.now() yield in this invocation.
handlerUntilSend(event, feedbackId, timestamp) ==
  IF event.httpMethod = "OPTIONS" THEN Responds(Result(200, ""))
  ELSE IF ~Truthy(event.body)
    THEN Responds(Result(400, ErrorBody("Request body is required")))
  ELSE
    LET parsed == JSONparse(event.body.s) IN
    IF ~parsed.ok THEN handlerCatch
    ELSE IF Nullish(parsed.v) THEN handlerCatch
    ELSE IF FeedbackBodyInvalid(parsed.v)
      THEN Responds(Result(400,
             ErrorBody("sessionId, message, and isThumbsUp are required")))
    ELSE
      LET claims == OptGet(event.authorizer, "claims") IN
      IF ~Truthy(claims) THEN Responds(Result(401, ErrorBody("Unauthorized")))
      ELSE Sends(feedbackId, FeedbackItem(parsed.v, claims, feedbackId, timestamp))

\* The rest of the try block once dynamodb.send has resolved, the catch
\* block once it has rejected.
handlerAfterSend(feedbackId, resolved) ==
  IF resolved THEN Responds(Result(200, SuccessBody(feedbackId)))
  ELSE handlerCatch

\* randomUUID() of the n-th invocation: a value no other invocation gets.
randomUUID(n) == "3f2b8c1e-0000-4000-8000-00000000000" \o DigitChar(n % 10)

\* Request bodies: the ones of the test script (thumbs up, thumbs down, a
\* body without message and isThumbsUp) and bodies short of one field.
FeedbackBody(sessionId, message, isThumbsUp) ==
  "{\"sessionId\": " \o sessionId \o ", \"message\": " \o message
    \o ", \"isThumbsUp\": " \o isThumbsUp \o "}"

ThumbsUpBody == FeedbackBody(Quoted("test-session-123"), Quoted("Great answer"), "true")
ThumbsDownBody == FeedbackBody(Quoted("test-session-456"), Quoted("Not helpful"), "false")
ValidBodies == {ThumbsUpBody, ThumbsDownBody}

IncompleteBodies ==
  {"{\"sessionId\": \"test-session-999\"}", "{}", "null", "7", "[]",
   FeedbackBody(Quoted(""), Quoted("Great answer"), "true"),
   FeedbackBody(Quoted("test-session-123"), Quoted(""), "true"),
   FeedbackBody(Quoted("test-session-123"), Quoted("Great answer"), Quoted("yes")),
   FeedbackBody(Quoted("test-session-123"), Quoted("Great answer"), "null"),
   "{\"sessionId\": \"test-session-123\", \"message\": \"Great answer\"}"}

UnparsableBodies == {"{\"sessionId\": ", "thumbs up"}

EventBodies ==
  {JNull, JStr("")}
  \cup {JStr(body) : body \in ValidBodies \cup IncompleteBodies \cup UnparsableBodies}

\* requestContext.authorizer: absent, without claims, with the claims of a
\* Cognito user, with an email only, with no claim at all.
Authorizers ==
  {Undefined,
   JObj(<<>>),
   JObj(<< <<"claims", JObj(<< <<"cognito:username", JStr("alice")>>,
                               <<"email", JStr("alice@example.com")>> >>)>> >>),
   JObj(<< <<"claims", JObj(<< <<"email", JStr("bob@example.com")>> >>)>> >>),
   JObj(<< <<"claims", JObj(<<>>)>> >>)}

Events ==
  [httpMethod : {"POST", "OPTIONS"}, body : EventBodies, authorizer : Authorizers]

\* Invocations of the handler in a run.
MaxRequests == 2

(***************************************************************************)
(* The HomePage component: the state of useState (messages, inputValue,    *)
(* isLoading, error) and handleSubmit.  A message is the function from the *)
(* names of its properties to their values.                                *)
(***************************************************************************)
\* generateSessionId() of the n-th call: an id no other call gets.
generateSessionId(n) == "session-" \o NatToString(n)

\* { id, role: 'user', content: inputValue.trim() }
userMessage(id, inputValue) ==
  [id |-> id, role |-> "user", content |-> trim(inputValue)]

\* { id, role: 'assistant', content: '', isStreaming: true }
assistantMessage(id) ==
  [id |-> id, role |-> "assistant", content |-> "", isStreaming |-> TRUE]

\* message.isStreaming, undefined (falsy) in a message of the user.
IsStreaming(msg) == "isStreaming" \in DOMAIN msg /\ msg["isStreaming"]

\* { ...msg, [name]: value }
Spread(msg, name, value) ==
  [k \in DOMAIN msg \cup {name} |-> IF k = name THEN value ELSE msg[k]]

\* prev.map((msg) => (msg.id === id ? { ...msg, content: streamedContent } : msg))
updateContent(prev, id, streamedContent) ==
  [i \in 1..Len(prev) |->
     IF prev[i]["id"] = id THEN Spread(prev[i], "content", streamedContent) ELSE prev[i]]

\* Variant: the end of streaming marks no message.
markNothingComplete(prev, id) == prev

\* prev.map((msg) => (msg.id === id ? { ...msg, isStreaming: false } : msg))
markComplete(prev, id) ==
  [i \in 1..Len(prev) |->
     IF prev[i]["id"] = id THEN Spread(prev[i], "isStreaming", FALSE) ELSE prev[i]]

\* prev.filter((msg) => msg.id !== id)
removeMessage(prev, id) == SelectSeq(prev, LAMBDA msg : msg["id"] # id)

\* err instanceof Error ? err.message : 'An error occurred'
errorMessage(err) == IF err.isError THEN err.message ELSE "An error occurred"

\* What the user types, what the agent streams, what invokeAgentCore
\* rejects with: an Error, an Error without message, a value that is no
\* Error.
InputValues == {"", "  ", "hi", " hello "}
StreamedContents == {"Hel", "Hello"}
Rejections ==
  {[isError |-> TRUE, message |-> "Network error"],
   [isError |-> TRUE, message |-> ""],
   [isError |-> FALSE, message |-> "timeout"]}

\* Submits that pass the guard of handleSubmit in a run.
MaxSubmits == 2

(***************************************************************************)
(* The read loop.  One session per backend: the caller owns the session's  *)
(* completion, created empty, reads one line at a time from the response   *)
(* stream, calls the session's parser with it and keeps the value the      *)
(* parser returns.  The update callback of a session appends its argument  *)
(* to the session's sink.                                                  *)
(***************************************************************************)
Session == {"strands", "langgraph"}

Stream(s) == IF s = "strands" THEN StrandsStream ELSE LangGraphStream

VARIABLES
  completion,  \* session -> the caller's accumulated completion
  sink,        \* session -> arguments of the update callback so far
  log,         \* session -> lines parsed so far, each with the callback's behaviour
  pending,     \* the line read from a stream and not yet parsed
  call,        \* the parser call just made: arguments and outcome
  fed          \* lines read so far

\* The feedback API: the Lambda function and its table.
VARIABLES
  table,       \* the items put into the feedback table, in order
  inflight,    \* the invocation that awaits dynamodb.send
  response,    \* the result the handler returned last, with its event
  handled      \* invocations so far

\* The HomePage component.
VARIABLES
  messages,    \* useState([]): the messages shown
  inputValue,  \* useState(''): the text of the input
  isLoading,   \* useState(false)
  error,       \* useState(null): null or the text of the alert
  invocation,  \* the invokeAgentCore call handleSubmit awaits, with the ids it closed over
  ids,         \* calls of generateSessionId so far
  step         \* what the component did last

parserVars == <<completion, sink, log, pending, call, fed>>
feedbackVars == <<table, inflight, response, handled>>
homeVars == <<messages, inputValue, isLoading, error, invocation, ids, step>>
vars == <<parserVars, feedbackVars, homeVars>>

NoInvocation == [awaited |-> FALSE, userId |-> "", assistantId |-> ""]

NoEvent == [httpMethod |-> "", body |-> JNull, authorizer |-> Undefined]
NoSend == [event |-> NoEvent, feedbackId |-> "", item |-> <<>>, waiting |-> FALSE]
NoResponse ==
  [event |-> NoEvent, result |-> Result(0, ""), feedbackId |-> "", sent |-> "none",
   rejects |-> FALSE]

NoLine == [session |-> "none", line |-> ""]
NoCall ==
  [session |-> "none", line |-> "", given |-> "", returned |-> "",
   calls |-> <<>>, raised |-> FALSE, threw |-> FALSE]

Init ==
  /\ completion = [s \in Session |-> ""]
  /\ sink = [s \in Session |-> <<>>]
  /\ log = [s \in Session |-> <<>>]
  /\ pending = NoLine
  /\ call = NoCall
  /\ fed = 0
  /\ table = <<>>
  /\ inflight = NoSend
  /\ response = NoResponse
  /\ handled = 0
  /\ messages = <<>>
  /\ inputValue = ""
  /\ isLoading = FALSE
  /\ error = JNull
  /\ invocation = NoInvocation
  /\ ids = 0
  /\ step = "mounted"

\* The read loop of session s obtains the next line of its stream.
ReadLine(s, line) ==
  /\ pending = NoLine
  /\ fed < MaxLines
  /\ pending' = [session |-> s, line |-> line]
  /\ fed' = fed + 1
  /\ call' = NoCall
  /\ UNCHANGED <<completion, sink, log>>
  /\ UNCHANGED feedbackVars
  /\ UNCHANGED homeVars

\* completion = parseStreamingChunk(line, completion, updateCallback)
Deliver(s, outcome, cb) ==
  /\ completion' =
       [completion EXCEPT ![s] = IF outcome.kind = "return" THEN outcome.value ELSE @]
  /\ sink' = [sink EXCEPT ![s] = @ \o outcome.calls]
  /\ log' = [log EXCEPT ![s] =
               Append(@, [line |-> pending.line,
                          threw |-> cb = "throws" /\ outcome.calls # <<>>])]
  /\ call' = [session |-> s, line |-> pending.line, given |-> completion[s],
              returned |-> outcome.value, calls |-> outcome.calls,
              raised |-> outcome.kind = "throw",
              threw |-> cb = "throws" /\ outcome.calls # <<>>]
  /\ pending' = NoLine
  /\ UNCHANGED fed
  /\ UNCHANGED feedbackVars
  /\ UNCHANGED homeVars

ParseStrands(cb) ==
  /\ pending.session = "strands"
  /\ Deliver("strands",
             parseStreamingChunk_strands(pending.line, completion["strands"], cb), cb)

\* Variant: the LangGraph read loop accumulates into the completion of the
\* Strands session, one buffer shared by both.
ParseLangGraphShared(cb) ==
  /\ pending.session = "langgraph"
  /\ Deliver("langgraph",
             parseStreamingChunk_langgraph(pending.line, completion["strands"], cb), cb)

ParseLangGraph(cb) ==
  /\ pending.session = "langgraph"
  /\ Deliver("langgraph",
             parseStreamingChunk_langgraph(pending.line, completion["langgraph"], cb), cb)

Next ==
  \/ \E s \in Session : \E line \in Stream(s) : ReadLine(s, line)
  \/ \E cb \in CallbackBehaviour : ParseStrands(cb)
  \/ \E cb \in CallbackBehaviour : ParseLangGraph(cb)

Spec == Init /\ [][Next]_vars

\* API Gateway invokes the handler with an event; the handler runs until it
\* returns a result or awaits dynamodb.send.
Invoke(event) ==
  /\ ~inflight.waiting
  /\ handled < MaxRequests
  /\ handled' = handled + 1
  /\ LET stop == handlerUntilSend(event, randomUUID(handled + 1), handled + 1) IN
     IF stop.kind # "send"
       THEN /\ response' = [event |-> event, result |-> stop.result,
                            feedbackId |-> "", sent |-> "none",
                            rejects |-> stop.kind = "reject"]
            /\ UNCHANGED inflight
       ELSE /\ inflight' = [event |-> event, feedbackId |-> stop.feedbackId,
                            item |-> stop.item, waiting |-> TRUE]
            /\ UNCHANGED response
  /\ UNCHANGED table
  /\ UNCHANGED parserVars
  /\ UNCHANGED homeVars

\* DynamoDB stores the item and dynamodb.send resolves: the handler
\* returns the result of lines 73 to 77.
SendResolves ==
  /\ inflight.waiting
  /\ table' = Append(table, inflight.item)
  /\ response' = [event |-> inflight.event,
                  result |-> handlerAfterSend(inflight.feedbackId, TRUE).result,
                  feedbackId |-> inflight.feedbackId, sent |-> "resolved",
                  rejects |-> handlerAfterSend(inflight.feedbackId, TRUE).kind = "reject"]
  /\ inflight' = NoSend
  /\ UNCHANGED handled
  /\ UNCHANGED parserVars
  /\ UNCHANGED homeVars

\* dynamodb.send rejects (throttling, no permission, no table) and stores
\* nothing: the handler returns the result of its catch block.
SendRejects ==
  /\ inflight.waiting
  /\ response' = [event |-> inflight.event,
                  result |-> handlerAfterSend(inflight.feedbackId, FALSE).result,
                  feedbackId |-> inflight.feedbackId, sent |-> "rejected",
                  rejects |-> handlerAfterSend(inflight.feedbackId, FALSE).kind = "reject"]
  /\ inflight' = NoSend
  /\ UNCHANGED <<table, handled>>
  /\ UNCHANGED parserVars
  /\ UNCHANGED homeVars

FeedbackNext ==
  \/ \E event \in Events : Invoke(event)
  \/ SendResolves
  \/ SendRejects

SpecFeedback == Init /\ [][FeedbackNext]_vars

\* onChange of the input, which is disabled while isLoading.
setInputValue(value) ==
  /\ ~isLoading
  /\ inputValue' = value
  /\ step' = "typed"
  /\ UNCHANGED <<messages, isLoading, error, invocation, ids>>
  /\ UNCHANGED <<parserVars, feedbackVars>>

\* onDismiss of the alert, which is shown while error is truthy.
dismissError ==
  /\ Truthy(error)
  /\ error' = JNull
  /\ step' = "dismissed"
  /\ UNCHANGED <<messages, inputValue, isLoading, invocation, ids>>
  /\ UNCHANGED <<parserVars, feedbackVars>>

\* handleSubmit down to the await of invokeAgentCore.
handleSubmit ==
  /\ IF trim(inputValue) = "" \/ isLoading
       THEN /\ step' = "ignored"
            /\ UNCHANGED <<messages, inputValue, isLoading, error, invocation, ids>>
       ELSE /\ ids < 2 * MaxSubmits
            /\ LET user == userMessage(generateSessionId(ids + 1), inputValue)
                   assistant == assistantMessage(generateSessionId(ids + 2))
               IN /\ messages' = messages \o <<user, assistant>>
                  /\ invocation' = [awaited |-> TRUE, userId |-> user["id"],
                                    assistantId |-> assistant["id"]]
            /\ ids' = ids + 2
            /\ inputValue' = ""
            /\ isLoading' = TRUE
            /\ error' = JNull
            /\ step' = "submitted"
  /\ UNCHANGED <<parserVars, feedbackVars>>

\* invokeAgentCore calls the callback of lines 54 to 58 with the content
\* streamed so far, while it is awaited or later.
streamed(streamedContent) ==
  /\ invocation.assistantId # ""
  /\ messages' = updateContent(messages, invocation.assistantId, streamedContent)
  /\ step' = "streamed"
  /\ UNCHANGED <<inputValue, isLoading, error, invocation, ids>>
  /\ UNCHANGED <<parserVars, feedbackVars>>

\* invokeAgentCore resolves: line 61, then the finally block.
invokeResolves ==
  /\ invocation.awaited
  /\ messages' = markComplete(messages, invocation.assistantId)
  /\ isLoading' = FALSE
  /\ invocation' = [invocation EXCEPT !.awaited = FALSE]
  /\ step' = "resolved"
  /\ UNCHANGED <<inputValue, error, ids>>
  /\ UNCHANGED <<parserVars, feedbackVars>>

\* invokeAgentCore rejects with err: the catch block, then the finally
\* block.
invokeRejects(err) ==
  /\ invocation.awaited
  /\ error' = JStr(errorMessage(err))
  /\ messages' = removeMessage(messages, invocation.assistantId)
  /\ isLoading' = FALSE
  /\ invocation' = [invocation EXCEPT !.awaited = FALSE]
  /\ step' = "rejected"
  /\ UNCHANGED <<inputValue, ids>>
  /\ UNCHANGED <<parserVars, feedbackVars>>

HomeNext ==
  \/ \E value \in InputValues : setInputValue(value)
  \/ dismissError
  \/ handleSubmit
  \/ \E streamedContent \in StreamedContents : streamed(streamedContent)
  \/ invokeResolves
  \/ \E err \in Rejections : invokeRejects(err)

SpecHome == Init /\ [][HomeNext]_vars

(***************************************************************************)
(* Properties.                                                             *)
(***************************************************************************)
Called == call.session # "none"

IsPrefix(p, s) == Len(p) <= Len(s) /\ SubSeq(s, 1, Len(p)) = p

\* C1: every call of parseStreamingChunk, of either parser, raises nothing
\* to its caller and returns a string, whatever the line, and also when the
\* payload is null, a content array holds null, or the callback raises.
C1_NeverRaises == Called => ~call.raised /\ call.returned \in STRING

\* A call in which the update callback raised and the caller saw no fault.
C1_Witness == Called /\ call.threw /\ ~call.raised

\* C2: in every call the callback is invoked at most once, and only in
\* calls whose returned value differs from the completion passed in.
C2_CallbackOnlyOnChange ==
  Called =>
    /\ Len(call.calls) <= 1
    /\ call.calls # <<>> => call.returned # call.given

\* C3: the value a call returns has the completion passed in as a prefix,
\* and every value a session's completion takes has the earlier one as a
\* prefix, so the completion only grows.
C3_AppendOnly ==
  /\ [](Called => IsPrefix(call.given, call.returned))
  /\ [][\A s \in Session :
          /\ IsPrefix(completion[s], completion'[s])
          /\ Len(completion'[s]) >= Len(completion[s])]_vars

\* A call that extended a completion that was not empty.
C3_Witness ==
  Called /\ call.given # "" /\ Len(call.returned) > Len(call.given)
    /\ completion[call.session] = call.returned

\* The last argument the update callback of session s received.
LatestUpdate(s) == sink[s][Len(sink[s])]

\* C4: the callback argument of a call equals the value that call returns,
\* so once a callback has occurred the latest callback argument of a session
\* equals the completion its caller holds.
C4_CallbackCarriesBuffer ==
  /\ Called /\ call.calls # <<>> => call.calls[Len(call.calls)] = call.returned
  /\ \A s \in Session : sink[s] # <<>> => LatestUpdate(s) = completion[s]

\* Lines whose payload decodes to event.messageStart.role = "assistant".
StrandsBoundaryLines == {StrandsBoundaryLine, StrandsBoundaryPadded}

\* C5: a Strands message start on a completion that is not empty returns
\* the completion followed by "\n\n" and invokes the callback once with that
\* value; on an empty completion it returns "" and invokes no callback.
C5_StrandsBoundary ==
  Called /\ call.session = "strands" /\ call.line \in StrandsBoundaryLines =>
    IF call.given # ""
      THEN call.returned = call.given \o "\n\n" /\ call.calls = <<call.returned>>
      ELSE call.returned = "" /\ call.calls = <<>>

StrandsDeltaLines == {StrandsDeltaLine(text) : text \in DeltaTexts}
DeltaTextOf(line) == CHOOSE text \in DeltaTexts : line = StrandsDeltaLine(text)

\* The texts of the first k lines of a log of text deltas, concatenated.
RECURSIVE Accumulated(_, _)
Accumulated(entries, k) ==
  IF k = 0 THEN ""
  ELSE Accumulated(entries, k - 1) \o DeltaTextOf(entries[k].line)

\* C6: when the lines of the Strands session so far are text deltas t1..tn,
\* the callback has been invoked once per line, the k-th time with t1..tk
\* concatenated, and the completion is t1..tn concatenated.
C6_StrandsDeltasAccumulate ==
  LET entries == log["strands"] IN
  (\A k \in 1..Len(entries) : entries[k].line \in StrandsDeltaLines) =>
    /\ Len(sink["strands"]) = Len(entries)
    /\ \A k \in 1..Len(entries) : sink["strands"][k] = Accumulated(entries, k)
    /\ completion["strands"] = Accumulated(entries, Len(entries))

\* AIMessageChunk lines whose content keeps text blocks, with the
\* concatenation of the texts of those blocks.
LangGraphDeltaLines ==
  {LangGraphTextLine("Hello"), LangGraphTwoBlocksLine, LangGraphMixedLine}
KeptText(line) ==
  CASE line = LangGraphTextLine("Hello") -> "Hello"
    [] line = LangGraphTwoBlocksLine -> "Hi there"
    [] line = LangGraphMixedLine -> "Hello"

\* C7: a LangGraph chunk with text blocks appends the texts of the blocks
\* it keeps, in order and with nothing between them, and invokes the
\* callback once with the resulting completion.
C7_LangGraphDelta ==
  Called /\ call.session = "langgraph" /\ call.line \in LangGraphDeltaLines =>
    /\ call.returned = call.given \o KeptText(call.line)
    /\ call.calls = <<call.returned>>

\* Content that mixes a text block "Hello" with an element that is no text
\* block: a tool_use block, the value null.
LangGraphMixedLines == {LangGraphMixedLine, LangGraphNullBlockLine}

\* C8: when content mixes text blocks with other elements, the text of the
\* text blocks is appended and the other elements neither add anything nor
\* keep it from being appended (stated for calls whose callback returns).
C8_LangGraphFiltering ==
  Called /\ call.session = "langgraph" /\ call.line \in LangGraphMixedLines
         /\ ~call.threw =>
    call.returned = call.given \o "Hello"

\* The behaviour of the callback in the call just made.
CallbackOfCall == IF call.threw THEN "throws" ELSE "returns"

\* C9: a LangGraph chunk with empty content and a Strands message start of
\* the assistant give, for the same completion, the same returned value and
\* the same callback invocations: none on an empty completion, one with the
\* completion followed by "\n\n" otherwise.
C9_BoundaryEquivalence ==
  /\ Called /\ call.session = "langgraph" /\ call.line = LangGraphBoundaryLine =>
       LET other == parseStreamingChunk_strands(StrandsBoundaryLine, call.given,
                                                CallbackOfCall)
       IN /\ other.value = call.returned
          /\ other.calls = call.calls
          /\ call.calls = IF call.given = "" THEN <<>>
                          ELSE <<call.given \o "\n\n">>
  /\ Called /\ call.session = "strands" /\ call.line = StrandsBoundaryLine =>
       LET other == parseStreamingChunk_langgraph(LangGraphBoundaryLine, call.given,
                                                  CallbackOfCall)
       IN /\ other.value = call.returned
          /\ other.calls = call.calls
          /\ call.calls = IF call.given = "" THEN <<>>
                          ELSE <<call.given \o "\n\n">>

\* A LangGraph boundary on a completion that is not empty.
C9_Witness ==
  Called /\ call.session = "langgraph" /\ call.line = LangGraphBoundaryLine
    /\ call.given # "" /\ call.calls # <<>>

\* C10: a line that is empty, white space, without the exact prefix
\* "data: ", or with nothing but white space after it, returns the
\* completion unchanged and invokes no callback, in both parsers.
C10_TransportDrop ==
  Called /\ call.line \in TransportLines =>
    call.returned = call.given /\ call.calls = <<>> /\ ~call.raised

\* A message start behind leading white space, on a completion that is not
\* empty.
C10_Witness ==
  Called /\ call.session = "strands" /\ call.line = " " \o StrandsBoundaryLine
    /\ call.given # "" /\ call.returned = call.given

\* The call just made left the completion as it was and invoked no callback.
CallIsNoOp == call.returned = call.given /\ call.calls = <<>> /\ ~call.raised

\* C11: a "data: " line whose payload is not JSON text returns the
\* completion unchanged, invokes no callback and raises nothing, in both
\* parsers.
C11_MalformedPayload ==
  Called /\ call.line \in MalformedLines => CallIsNoOp

\* A truncated payload handed to the LangGraph parser on a completion that
\* is not empty.
C11_Witness ==
  Called /\ call.session = "langgraph" /\ call.line \in MalformedLines
    /\ call.given # "" /\ call.returned = call.given

\* Events the Strands parser does not know: a message start of the user, a
\* null event, metadata, the start of a tool call, events of another format,
\* JSON text of a value that is no object.
StrandsUnrecognizedLines ==
  {StrandsUserStartLine, StrandsToolUseLine,
   DataLine("{\"event\": null}"),
   DataLine("{\"event\": {\"metadata\": {\"usage\": {\"inputTokens\": 3}}}}"),
   LangGraphBoundaryLine, LangGraphTextLine("Hello")}
  \cup NonObjectLines

\* C12: the Strands parser returns the completion unchanged and invokes no
\* callback for JSON that is neither a message start of the assistant nor a
\* content block delta with a text; a message start of another role adds no
\* separator.
C12_StrandsUnrecognized ==
  Called /\ call.session = "strands" /\ call.line \in StrandsUnrecognizedLines =>
    CallIsNoOp

\* A message start of the user on a completion that is not empty.
C12_Witness ==
  Called /\ call.session = "strands" /\ call.line = StrandsUserStartLine
    /\ call.given # "" /\ call.returned = call.given

\* Content block deltas whose text is the empty string, a number, an array.
StrandsNonTextDeltaLines ==
  {DataLine(StrandsDeltaEvent(text)) : text \in {"\"\"", "7", "[1, 2]"}}

\* C13: a content block delta whose text is not a string that is not empty
\* returns the completion unchanged and invokes no callback.
C13_StrandsDeltaNeedsString ==
  Called /\ call.session = "strands" /\ call.line \in StrandsNonTextDeltaLines =>
    CallIsNoOp

\* JSON the LangGraph parser does not know: another type, no type, a content
\* that is a string, no content.
LangGraphUnrecognizedLines ==
  {LangGraphToolMessageLine, LangGraphStringContentLine, LangGraphNoContentLine,
   StrandsBoundaryLine, StrandsDeltaLine("Hello"), DataLine("7")}

\* C14: the LangGraph parser returns the completion unchanged and invokes
\* no callback for JSON whose type is not "AIMessageChunk" or whose content
\* is no array.
C14_LangGraphUnrecognized ==
  Called /\ call.session = "langgraph" /\ call.line \in LangGraphUnrecognizedLines =>
    CallIsNoOp

\* A ToolMessage with a text block on a completion that is not empty.
C14_Witness ==
  Called /\ call.session = "langgraph" /\ call.line = LangGraphToolMessageLine
    /\ call.given # "" /\ call.returned = call.given

\* Chunks whose content is not empty and keeps no text: a tool_use block, a
\* text block with the empty text, blocks without a type.
LangGraphEmptyKeptLines ==
  {LangGraphToolOnlyLine, LangGraphEmptyTextLine, LangGraphUntypedLine}

\* C15: an AIMessageChunk whose content is not empty and whose kept text is
\* empty returns the completion unchanged, without callback and without the
\* separator of a message start.
C15_LangGraphEmptyKept ==
  Called /\ call.session = "langgraph" /\ call.line \in LangGraphEmptyKeptLines =>
    CallIsNoOp

\* A chunk of tool_use blocks only on a completion that is not empty.
C15_Witness ==
  Called /\ call.session = "langgraph" /\ call.line = LangGraphToolOnlyLine
    /\ call.given # "" /\ call.returned = call.given

\* Boundary events and text delta events (a content block delta with a text
\* that is not empty, a chunk with text blocks) of each format.
BoundaryLines(s) ==
  IF s = "strands" THEN StrandsBoundaryLines \cup {StrandsBothLine}
  ELSE {LangGraphBoundaryLine}
DeltaEventLines(s) ==
  IF s = "strands"
    THEN StrandsDeltaLines
         \cup {DataLine(StrandsDeltaEvent(text)) : text \in {"7", "[1, 2]"}}
    ELSE LangGraphDeltaLines

Parser(s, line, currentCompletion, cb) ==
  IF s = "strands" THEN parseStreamingChunk_strands(line, currentCompletion, cb)
  ELSE parseStreamingChunk_langgraph(line, currentCompletion, cb)

\* What the read loop holds after a call: the completion the parser
\* returned, the sink with the callback's arguments appended.
Applied(before, outcome) ==
  [completion |-> IF outcome.kind = "return" THEN outcome.value ELSE before.completion,
   sink |-> before.sink \o outcome.calls]

ReplayStep(s, entry, before) ==
  Applied(before,
          Parser(s, entry.line, before.completion,
                 IF entry.threw THEN "throws" ELSE "returns"))

\* The completion and the callback arguments obtained by processing the
\* first k lines of entries alone, from the empty completion.
RECURSIVE Replay(_, _, _)
Replay(s, entries, k) ==
  IF k = 0 THEN [completion |-> "", sink |-> <<>>]
  ELSE ReplayStep(s, entries[k], Replay(s, entries, k - 1))

NoOpLines(s) ==
  TransportLines \cup MalformedLines \cup NonObjectLines
  \cup (IF s = "strands"
          THEN StrandsUnrecognizedLines \cup {DataLine(StrandsDeltaEvent("\"\""))}
          ELSE LangGraphUnrecognizedLines \cup LangGraphEmptyKeptLines)

\* The entries of a log that are no such lines.
WithoutNoOps(s, entries) ==
  SelectSeq(entries, LAMBDA entry : entry.line \notin NoOpLines(s))

Responded == response.event.httpMethod # ""

\* The items of the table stored with a feedbackId.
ItemsOf(feedbackId) ==
  {i \in DOMAIN table : table[i].feedbackId.S = feedbackId}

IsNonEmptyString(v) == v.t = "str" /\ v.s # ""

\* The event's body is JSON text of a value with a sessionId and a message
\* that are strings and not empty and an isThumbsUp that is a boolean.
HasJsonBody(event) == event.body.t = "str" /\ JSONparse(event.body.s).ok
CompleteBody(event) ==
  /\ HasJsonBody(event)
  /\ LET body == JSONparse(event.body.s).v IN
     /\ IsNonEmptyString(Get(body, "sessionId"))
     /\ IsNonEmptyString(Get(body, "message"))
     /\ Get(body, "isThumbsUp").t = "bool"

\* C19: a POST whose JSON body has no sessionId that is not empty, no
\* message that is not empty or no boolean isThumbsUp is answered 400 and
\* no item is written for it.
C19_ValidationRejects ==
  Responded /\ response.event.httpMethod = "POST" /\ HasJsonBody(response.event)
    /\ ~CompleteBody(response.event) =>
      /\ response.result.statusCode = 400
      /\ response.sent = "none"

\* An authenticated POST with a complete body.
AuthenticatedPost(event) ==
  /\ event.httpMethod = "POST"
  /\ CompleteBody(event)
  /\ Truthy(OptGet(event.authorizer, "claims"))

\* The body of the result reports success with the feedbackId of exactly
\* one stored item, the last one.
ReportsStoredItem ==
  /\ response.result.statusCode = 200
  /\ LET reported == JSONparse(response.result.body) IN
     /\ reported.ok
     /\ Get(reported.v, "success") = JBool(TRUE)
     /\ Get(reported.v, "feedbackId").t = "str"
     /\ ItemsOf(Get(reported.v, "feedbackId").s) = {Len(table)}

\* C20 as stated: an authenticated POST with a complete body is answered
\* 200 with isThumbsUp true or false, exactly one item is written for it
\* and the body reports success with the feedbackId of that item.
C20_SuccessAlways ==
  Responded /\ AuthenticatedPost(response.event) => ReportsStoredItem

\* C20: an authenticated POST with a complete body, isThumbsUp true or
\* false, reaches dynamodb.send; when the write succeeds it is answered 200,
\* exactly one item is written for it and the body reports success with
\* the feedbackId of that item; when the write fails it is answered 500 and
\* no item is written for it.
C20_SuccessWhenStored ==
  Responded /\ AuthenticatedPost(response.event) =>
    IF response.sent = "resolved"
      THEN ReportsStoredItem
      ELSE /\ response.sent = "rejected"
           /\ response.result.statusCode = 500
           /\ ItemsOf(response.feedbackId) = {}

\* A thumbs down of a signed-in user answered 200 with its item stored.
C20_Witness ==
  /\ Responded /\ AuthenticatedPost(response.event)
  /\ response.event.body = JStr(ThumbsDownBody)
  /\ response.result.statusCode = 200
  /\ Len(table) > 0 /\ table[Len(table)].isThumbsUp = [BOOL |-> FALSE]
  /\ table[Len(table)].feedbackId.S = response.feedbackId

\* The number of boundary lines that end a log.
RECURSIVE TrailingBoundaries(_, _)
TrailingBoundaries(s, entries) ==
  IF entries = <<>> THEN 0
  ELSE IF entries[Len(entries)].line \in BoundaryLines(s)
    THEN 1 + TrailingBoundaries(s, SubSeq(entries, 1, Len(entries) - 1))
    ELSE 0

\* k separators in a row.
RECURSIVE Separators(_)
Separators(k) == IF k = 0 THEN "" ELSE MessageSeparator \o Separators(k - 1)

\* C21: when the lines of a session end with k boundary events in a row
\* and the completion before them was not empty, the completion is the one
\* before them followed by k separators and the callback was invoked k
\* times for them, in both parsers.
C21_BoundariesDoNotCoalesce ==
  Called =>
    LET s == call.session
        k == TrailingBoundaries(s, log[s])
        before == Replay(s, log[s], Len(log[s]) - k)
    IN before.completion # "" =>
         /\ completion[s] = before.completion \o Separators(k)
         /\ Len(sink[s]) = Len(before.sink) + k

\* C22: a Strands event with both a message start of the assistant and a
\* content block delta with a text is handled as a boundary only: on an
\* empty completion nothing happens, on any other the callback gets the
\* completion with the separator and the text is appended nowhere.
C22_StrandsBoundaryFirst ==
  Called /\ call.session = "strands" /\ call.line = StrandsBothLine =>
    IF call.given = ""
      THEN CallIsNoOp
      ELSE /\ call.calls = <<call.given \o MessageSeparator>>
           /\ call.returned \in {call.given, call.given \o MessageSeparator}
           /\ ~call.raised

\* Such an event parsed on a completion that is not empty: the separator is
\* appended, the text is not.
C22_Witness ==
  Called /\ call.session = "strands" /\ call.line = StrandsBothLine
    /\ call.given # "" /\ call.returned = call.given \o MessageSeparator

\* C23: when the update callback throws, the call raises nothing and
\* returns the completion it was given, although the callback has been
\* invoked with the longer value; the caller's completion lacks the
\* separator or text of that line.  In both parsers.
C23_CallbackFaultAbsorbed ==
  Called /\ call.threw =>
    /\ ~call.raised
    /\ call.returned = call.given
    /\ Len(call.calls) = 1
    /\ call.calls[1] # call.given /\ IsPrefix(call.given, call.calls[1])
    /\ completion[call.session] = call.given

\* A LangGraph text chunk whose callback throws, on a completion that is
\* not empty.
C23_Witness ==
  Called /\ call.session = "langgraph" /\ call.threw
    /\ call.line = LangGraphTextLine("Hello")
    /\ call.given # "" /\ call.calls = <<call.given \o "Hello">>

\* C24: a LangGraph chunk whose content holds a null element is dropped
\* as a whole line, text blocks beside the null included; a payload that is
\* the JSON value null is dropped by both parsers.
C24_NullDropped ==
  /\ Called /\ call.session = "langgraph" /\ call.line = LangGraphNullBlockLine =>
       CallIsNoOp
  /\ Called /\ call.line = DataLine("null") => CallIsNoOp

\* The chunk with a text block "Hello" and a null, on a completion that is
\* not empty.
C24_Witness ==
  Called /\ call.session = "langgraph" /\ call.line = LangGraphNullBlockLine
    /\ call.given # "" /\ call.returned = call.given /\ call.calls = <<>>

\* The event's body is a string that JSON.parse rejects.
UnparsableBody(event) ==
  event.body.t = "str" /\ event.body.s # "" /\ ~JSONparse(event.body.s).ok

\* C25: the handler's promise never rejects; a body that is not JSON text
\* and a failed DynamoDB write are answered 500; every result (200, 400,
\* 401, 500) carries the CORS headers; OPTIONS is answered 200 with an
\* empty body whatever the body of the request.
C25_NeverRejects ==
  Responded =>
    /\ ~response.rejects
    /\ response.result.headers = corsHeaders
    /\ response.result.statusCode \in {200, 400, 401, 500}
    /\ response.event.httpMethod = "POST" /\ UnparsableBody(response.event) =>
         response.result.statusCode = 500
    /\ response.sent = "rejected" => response.result.statusCode = 500
    /\ response.event.httpMethod = "OPTIONS" =>
         /\ response.result.statusCode = 200
         /\ response.result.body = ""
         /\ response.sent = "none"

\* A request whose DynamoDB write failed, answered 500 with the CORS
\* headers.
C25_Witness ==
  /\ Responded /\ response.sent = "rejected"
  /\ response.result.statusCode = 500
  /\ response.result.headers = corsHeaders
  /\ ~response.rejects

\* C26: a POST without authorizer claims writes nothing to the table; it
\* is answered 401 when its body is complete, and 400, not 401, when its
\* body is missing or is JSON short of a required field.
C26_NoClaimsNoWrite ==
  Responded /\ response.event.httpMethod = "POST"
    /\ ~Truthy(OptGet(response.event.authorizer, "claims")) =>
      /\ response.sent = "none"
      /\ ItemsOf(response.feedbackId) = {}
      /\ CompleteBody(response.event) => response.result.statusCode = 401
      /\ \/ ~Truthy(response.event.body)
         \/ HasJsonBody(response.event) /\ ~CompleteBody(response.event)
         => response.result.statusCode = 400

\* What the component shows.
HomeView == <<messages, inputValue, isLoading, error>>

\* The position in a list of messages of the one with an id, 0 if none.
IndexOf(list, id) ==
  IF \E i \in 1..Len(list) : list[i]["id"] = id
    THEN CHOOSE i \in 1..Len(list) : list[i]["id"] = id
    ELSE 0

\* A submit with a blank input or while isLoading changes nothing.
IgnoredSubmit ==
  step' \in {"ignored", "submitted"} /\ (trim(inputValue) = "" \/ isLoading) =>
    HomeView' = HomeView /\ invocation' = invocation

\* Any other submit appends the two messages and sets isLoading.
AcceptedSubmit ==
  step' \in {"ignored", "submitted"} /\ ~(trim(inputValue) = "" \/ isLoading) =>
    /\ isLoading'
    /\ Len(messages') = Len(messages) + 2
    /\ SubSeq(messages', 1, Len(messages)) = messages
    /\ messages'[Len(messages') - 1]["role"] = "user"
    /\ messages'[Len(messages') - 1]["content"] = trim(inputValue)
    /\ IsStreaming(messages'[Len(messages')])

\* Once invokeAgentCore has settled isLoading is false and no message is
\* streaming.
Settled ==
  step' \in {"resolved", "rejected"} =>
    /\ ~isLoading'
    /\ \A i \in 1..Len(messages') : ~IsStreaming(messages'[i])

\* On success the placeholder stays, with isStreaming false and its
\* content, and every other message is as it was.
SettledResolved ==
  step' = "resolved" =>
    LET at == IndexOf(messages, invocation.assistantId) IN
    /\ at # 0
    /\ Len(messages') = Len(messages)
    /\ \A i \in 1..Len(messages) :
         IF i = at
           THEN /\ messages'[i]["content"] = messages[i]["content"]
                /\ messages'[i]["role"] = "assistant"
                /\ ~IsStreaming(messages'[i])
           ELSE messages'[i] = messages[i]
    /\ error' = error

\* On failure the placeholder is removed, the error is set and the other
\* messages, the one of the user among them, are as they were.
SettledRejected ==
  step' = "rejected" =>
    LET at == IndexOf(messages, invocation.assistantId) IN
    /\ at # 0
    /\ messages' = SubSeq(messages, 1, at - 1) \o SubSeq(messages, at + 1, Len(messages))
    /\ IndexOf(messages', invocation.userId) # 0
    /\ error' # JNull

\* A streamed update changes the content of the placeholder and nothing
\* else.
StreamedUpdate ==
  step' = "streamed" =>
    /\ Len(messages') = Len(messages)
    /\ \A i \in 1..Len(messages) :
         IF messages[i]["id"] = invocation.assistantId
           THEN /\ messages[i]["role"] = "assistant"
                /\ messages'[i] = Spread(messages[i], "content", messages'[i]["content"])
           ELSE messages'[i] = messages[i]
    /\ <<inputValue', isLoading', error'>> = <<inputValue, isLoading, error>>

\* C27: in HomePage.handleSubmit a submit with a blank input or while
\* isLoading changes nothing; any other submit sets isLoading, which is
\* false again once invokeAgentCore has settled, with no message left
\* streaming: on success the placeholder is kept with isStreaming false, on
\* failure it is removed, the error set and the message of the user kept;
\* a streamed update changes only the content of the placeholder.
C27_SubmitLifecycle ==
  /\ [][IgnoredSubmit /\ AcceptedSubmit /\ Settled /\ SettledResolved
        /\ SettledRejected /\ StreamedUpdate]_vars
  /\ [](isLoading <=> invocation.awaited)
  /\ [](~isLoading => \A i \in 1..Len(messages) : ~IsStreaming(messages[i]))

\* A second submit has failed after a first one succeeded: the first
\* answer and both messages of the user are shown, the error is set.
C27_Witness ==
  /\ step = "rejected"
  /\ Len(messages) = 3
  /\ messages[2]["role"] = "assistant" /\ messages[2]["content"] = "Hello"
  /\ messages[3]["role"] = "user"
  /\ error = JStr("Network error")
  /\ ~isLoading
====
